---- MODULE Spec2Model ----
(***************************************************************************)
(* A model of instrumentation/prometheus/prometheus.go: the facade that    *)
(* binds the 28 instrumentation events of the store to 28 Prometheus       *)
(* metrics (20 counters, 8 histograms) registered under prefix + suffix.   *)
(*                                                                         *)
(* The metric objects, the registry and the HTTP mux live in imported      *)
(* packages.  What the facade does with them is translated from the        *)
(* source; the primitives themselves (a counter adds, a histogram records  *)
(* one sample, each metric is guarded by a lock of its own, a registry     *)
(* refuses a second metric under a registered name) follow sections 4.1 to *)
(* 4.3 of the specification.  New discards the result of every Register    *)
(* call, so whether a refused registration stops the process is decided    *)
(* outside the facade: the model keeps both outcomes (abortOnMisuse).      *)
(***************************************************************************)
EXTENDS Integers, Sequences, FiniteSets, TLC

\* ------------------------------------------------------------------ bounds

MaxFacades == 2
MaxCalls == 2
MaxThreads == 2

\* The prefixes New is called with.
Prefixes == {"", "test_"}
\* The patterns Install is called with.
Patterns == {"/metrics"}
\* The counts passed to the count-taking events (int, negative included).
Counts == {-1, 1, 5}
\* The durations passed to the duration-taking events, in nanoseconds.
Durations == {1000, 1500000}

Threads == 1..MaxThreads

\* ------------------------------------------------------------------- state

VARIABLES
    metrics,        \* the metric objects allocated by NewCounter / NewDefaultHistogram
    registry,       \* the process-wide registry: <<[name, metric]>> in registration order
    facades,        \* the PrometheusInstrumentation values New has returned: field -> metric
    mux,            \* the ServeMux: pattern -> handler
    abortOnMisuse,  \* whether the registry stops the process on a refused registration
    crashed,        \* the process has panicked
    concurrent,     \* events are called from concurrent threads (SpecConc) or one at a time
    thread,         \* per thread: where its event call is (idle, called, locked)
    render,         \* the exposition handler's render in progress
    calls,          \* history: number of calls made
    prefixOf,       \* history: the prefix each facade was constructed with
    passed,         \* history: per facade and event, the sum of the arguments passed
    overlapped      \* history: a call entered a metric another call was inside of

vars == <<metrics, registry, facades, mux, abortOnMisuse, crashed, concurrent,
          thread, render, calls, prefixOf, passed, overlapped>>

\* ------------------------------------------------- the facade's 28 fields

Fields ==
    << "insertCallCount", "insertRecordCount", "insertCallDuration",
       "insertRecordDuration", "insertQuorumFailureCount", "selectCallCount",
       "selectKeysCount", "selectSendToCount", "selectFirstResponseDuration",
       "selectPartialErrorCount", "selectBlockingDuration",
       "selectOverheadDuration", "selectDuration",
       "selectSendAllPromotionCount", "selectRetrievedCount",
       "selectReturnedCount", "selectRepairNeededCount", "deleteCallCount",
       "deleteRecordCount", "deleteCallDuration", "deleteRecordDuration",
       "deleteQuorumFailureCount", "repairCallCount", "repairRequestCount",
       "repairDiscardedCount", "repairWriteSuccessCount",
       "repairWriteFailureCount", "walkKeysCount" >>

NumFields == Len(Fields)

FieldSet == {Fields[k] : k \in 1..NumFields}

FieldIndex(fld) == CHOOSE k \in 1..NumFields : Fields[k] = fld

\* The constructor New calls for each field.
Constructor ==
    [ insertCallCount             |-> "NewCounter",
      insertRecordCount           |-> "NewCounter",
      insertCallDuration          |-> "NewDefaultHistogram",
      insertRecordDuration        |-> "NewDefaultHistogram",
      insertQuorumFailureCount    |-> "NewCounter",
      selectCallCount             |-> "NewCounter",
      selectKeysCount             |-> "NewCounter",
      selectSendToCount           |-> "NewCounter",
      selectFirstResponseDuration |-> "NewDefaultHistogram",
      selectPartialErrorCount     |-> "NewCounter",
      selectBlockingDuration      |-> "NewDefaultHistogram",
      selectOverheadDuration      |-> "NewDefaultHistogram",
      selectDuration              |-> "NewDefaultHistogram",
      selectSendAllPromotionCount |-> "NewCounter",
      selectRetrievedCount        |-> "NewCounter",
      selectReturnedCount         |-> "NewCounter",
      selectRepairNeededCount     |-> "NewCounter",
      deleteCallCount             |-> "NewCounter",
      deleteRecordCount           |-> "NewCounter",
      deleteCallDuration          |-> "NewDefaultHistogram",
      deleteRecordDuration        |-> "NewDefaultHistogram",
      deleteQuorumFailureCount    |-> "NewCounter",
      repairCallCount             |-> "NewCounter",
      repairRequestCount          |-> "NewCounter",
      repairDiscardedCount        |-> "NewCounter",
      repairWriteSuccessCount     |-> "NewCounter",
      repairWriteFailureCount     |-> "NewCounter",
      walkKeysCount               |-> "NewCounter" ]

\* The Register calls of New, in order: the name's suffix and the field passed.
Registrations ==
    << [suffix |-> "insert_call_count",                          field |-> "insertCallCount"],
       [suffix |-> "insert_record_count",                        field |-> "insertRecordCount"],
       [suffix |-> "insert_call_duration_nanoseconds",           field |-> "insertCallDuration"],
       [suffix |-> "insert_record_duration_nanoseconds",         field |-> "insertRecordDuration"],
       [suffix |-> "insert_quorum_failure_count",                field |-> "insertQuorumFailureCount"],
       [suffix |-> "select_call_count",                          field |-> "selectCallCount"],
       [suffix |-> "select_keys_count",                          field |-> "selectKeysCount"],
       [suffix |-> "select_send_to_count",                       field |-> "selectSendToCount"],
       [suffix |-> "select_first_response_duration_nanoseconds", field |-> "selectFirstResponseDuration"],
       [suffix |-> "select_partial_error_count",                 field |-> "selectPartialErrorCount"],
       [suffix |-> "select_blocking_duration_nanoseconds",       field |-> "selectBlockingDuration"],
       [suffix |-> "select_overhead_duration_nanoseconds",       field |-> "selectOverheadDuration"],
       [suffix |-> "select_duration_nanoseconds",                field |-> "selectDuration"],
       [suffix |-> "select_send_all_promotion_count",            field |-> "selectSendAllPromotionCount"],
       [suffix |-> "select_retrieved_count",                     field |-> "selectRetrievedCount"],
       [suffix |-> "select_returned_count",                      field |-> "selectReturnedCount"],
       [suffix |-> "select_repair_needed_count",                 field |-> "selectRepairNeededCount"],
       [suffix |-> "delete_call_count",                          field |-> "deleteCallCount"],
       [suffix |-> "delete_record_count",                        field |-> "deleteRecordCount"],
       [suffix |-> "delete_call_duration_nanoseconds",           field |-> "deleteCallDuration"],
       [suffix |-> "delete_record_duration_nanoseconds",         field |-> "deleteRecordDuration"],
       [suffix |-> "delete_quorum_failure_count",                field |-> "deleteQuorumFailureCount"],
       [suffix |-> "repair_call_count",                          field |-> "repairCallCount"],
       [suffix |-> "repair_request_count",                       field |-> "repairRequestCount"],
       [suffix |-> "repair_discarded_count",                     field |-> "repairDiscardedCount"],
       [suffix |-> "repair_write_success_count",                 field |-> "repairWriteSuccessCount"],
       [suffix |-> "repair_write_failure_count",                 field |-> "repairWriteFailureCount"],
       [suffix |-> "walk_keys_count",                            field |-> "walkKeysCount"] >>

\* The 28 event methods of the Instrumentation interface.
Methods ==
    { "InsertCall", "InsertRecordCount", "InsertCallDuration",
      "InsertRecordDuration", "InsertQuorumFailure", "SelectCall",
      "SelectKeys", "SelectSendTo", "SelectFirstResponseDuration",
      "SelectPartialError", "SelectBlockingDuration",
      "SelectOverheadDuration", "SelectDuration", "SelectSendAllPromotion",
      "SelectRetrieved", "SelectReturned", "SelectRepairNeeded",
      "DeleteCall", "DeleteRecordCount", "DeleteCallDuration",
      "DeleteRecordDuration", "DeleteQuorumFailure", "RepairCall",
      "RepairRequest", "RepairDiscarded", "RepairWriteSuccess",
      "RepairWriteFailure", "WalkKeys" }

\* ------------------------------------------------------ the metric objects

\* Upper bounds of a histogram's buckets, in nanoseconds; one more bucket
\* takes what exceeds the last bound.
BucketBounds == <<1000, 1000000, 1000000000>>

NumBuckets == Len(BucketBounds) + 1

\* The bucket containing v: the first whose upper bound is not below v.
BucketOf(v) ==
    IF \E b \in 1..Len(BucketBounds) : v <= BucketBounds[b]
    THEN CHOOSE b \in 1..Len(BucketBounds) :
             /\ v <= BucketBounds[b]
             /\ \A c \in 1..(b - 1) : v > BucketBounds[c]
    ELSE NumBuckets

\* prometheus.NewCounter(): a counter at 0.
NewCounter == [kind |-> "counter", value |-> 0]

\* prometheus.NewDefaultHistogram(): an empty histogram.
NewDefaultHistogram ==
    [kind |-> "histogram", count |-> 0, sum |-> 0,
     buckets |-> [b \in 1..NumBuckets |-> 0]]

\* Counter.IncrementBy(labels, v): value += v.  Neither the counter nor the
\* facade looks at the sign of v.
CounterIncrementBy(m, v) == [m EXCEPT !.value = @ + v]

\* Histogram.Add(labels, v): one sample: its bucket, the count and the sum.
HistogramAdd(m, v) ==
    [m EXCEPT !.count = @ + 1, !.sum = @ + v, !.buckets[BucketOf(v)] = @ + 1]

\* float64(n) of an int: exact for |n| <= 2^53, which covers every value of
\* the model.
Float64(n) == n

\* time.Duration.Nanoseconds(): the duration as an int64 count of nanoseconds,
\* which is the representation of a Duration itself.
Nanoseconds(d) == d

\* The library calls the event methods make.
Increment(h) == [metric |-> h, op |-> "IncrementBy", v |-> 1]

IncrementBy(h, v) == [metric |-> h, op |-> "IncrementBy", v |-> v]

Add(h, v) == [metric |-> h, op |-> "Add", v |-> v]

\* The metric object m after library call c.
Applied(m, c) ==
    IF c.op = "IncrementBy" THEN CounterIncrementBy(m, c.v) ELSE HistogramAdd(m, c.v)

\* ------------------------------------------------------------ the registry

RegisteredNames(reg) == {reg[k].name : k \in 1..Len(reg)}

\* MetricName as it would be if New left the prefix out.
MetricNameWithoutPrefix(prefix, suffix) == suffix

\* The name New registers a field's metric under.
MetricName(prefix, suffix) == prefix \o suffix

\* Register(name, docstring, labels, metric) on the process-wide registry: a
\* name already registered is refused (an error, the registry unchanged).
Register(reg, name, h) ==
    IF name \in RegisteredNames(reg)
    THEN [registry |-> reg, err |-> TRUE]
    ELSE [registry |-> Append(reg, [name |-> name, metric |-> h]), err |-> FALSE]

\* The Register calls of New from the k-th on, for the facade i.  New drops
\* each call's result and goes on, unless the registry stops the process.
RECURSIVE RegisterAll(_, _, _, _)
RegisterAll(reg, prefix, i, k) ==
    IF k > Len(Registrations)
    THEN [registry |-> reg, panicked |-> FALSE]
    ELSE LET r == Register(reg, MetricName(prefix, Registrations[k].suffix),
                           i[Registrations[k].field])
         IN  IF r.err /\ abortOnMisuse
             THEN [registry |-> r.registry, panicked |-> TRUE]
             ELSE RegisterAll(r.registry, prefix, i, k + 1)

\* The struct literal of New: one fresh metric object per field, the field
\* holding a reference to it.  The objects are numbered as allocated.
NewMetrics ==
    [k \in 1..NumFields |->
        IF Constructor[Fields[k]] = "NewCounter"
        THEN NewCounter ELSE NewDefaultHistogram]

Allocated(base) == [fld \in FieldSet |-> base + FieldIndex(fld)]

NoCall == [metric |-> 0, op |-> "none", v |-> 0]

IdleThread == [pc |-> "idle", call |-> NoCall, read |-> NewCounter]

IdleRender == [state |-> "idle", idx |-> 0, out |-> <<>>, start |-> <<>>,
               held |-> <<>>, quiet |-> TRUE]

\* The state of a process that has constructed nothing yet.
Init ==
    /\ metrics = <<>>
    /\ registry = <<>>
    /\ facades = <<>>
    /\ mux = <<>>
    /\ abortOnMisuse \in BOOLEAN
    /\ crashed = FALSE
    /\ concurrent = FALSE
    /\ thread = [t \in Threads |-> IdleThread]
    /\ render = IdleRender
    /\ calls = 0
    /\ prefixOf = <<>>
    /\ passed = <<>>
    /\ overlapped = FALSE

\* New(prefix): allocate the 28 metrics, register each under prefix + suffix,
\* return the facade.
New(prefix) ==
    LET i == Allocated(Len(metrics))
        objs == NewMetrics
        r == RegisterAll(registry, prefix, i, 1)
    IN  /\ ~crashed
        /\ Len(facades) < MaxFacades
        /\ registry' = r.registry
        /\ IF r.panicked
           THEN /\ crashed' = TRUE
                /\ UNCHANGED <<metrics, facades, prefixOf, passed>>
           ELSE /\ metrics' = metrics \o objs
                /\ facades' = Append(facades, i)
                /\ prefixOf' = Append(prefixOf, prefix)
                /\ passed' = Append(passed, [m \in Methods |-> 0])
                /\ UNCHANGED crashed
        /\ UNCHANGED <<mux, abortOnMisuse, concurrent, thread, render, calls,
                       overlapped>>

\* prometheus.DefaultHandler: the handler of the process-wide registry.
DefaultHandler == "DefaultHandler"

\* Install(pattern, mux): mount the default handler.  ServeMux.Handle panics
\* on a pattern that is already mounted.
Install(f, pattern) ==
    /\ ~crashed
    /\ f \in DOMAIN facades
    /\ calls < MaxCalls
    /\ calls' = calls + 1
    /\ IF pattern \in DOMAIN mux
       THEN crashed' = TRUE /\ UNCHANGED mux
       ELSE mux' = (mux @@ (pattern :> DefaultHandler)) /\ UNCHANGED crashed
    /\ UNCHANGED <<metrics, registry, facades, abortOnMisuse, concurrent,
                   thread, render, prefixOf, passed, overlapped>>

\* What a handler mounted on the mux serves: the default handler renders the
\* process-wide registry, whichever facade's Install mounted it.
Served(handler, reg) == IF handler = DefaultHandler THEN reg ELSE <<>>

\* MutexFree as it would be if a metric had no lock.
MutexFreeWithoutLock(h) == TRUE

\* A metric's lock is free when no thread is inside an update of it.
MutexFree(h) ==
    \A t \in Threads : ~(thread[t].pc = "locked" /\ thread[t].call.metric = h)

\* History of a render: a call was in flight while it ran or since it ended.
Disturbed(r) == IF r.state = "idle" THEN r ELSE [r EXCEPT !.quiet = FALSE]

\* History of a render: metric h took the value obj while it ran.
Observed(r, h, obj) ==
    IF r.state = "running"
    THEN [r EXCEPT !.quiet = FALSE,
                   !.held = [k \in DOMAIN @ |->
                               IF registry[k].metric = h THEN @[k] \cup {obj} ELSE @[k]]]
    ELSE Disturbed(r)

\* An event method of facade f: its body is the one library call `call` on a
\* metric the facade holds.  Called from one thread at a time the call runs to
\* its end; called concurrently, the thread enters the library (Lock, Unlock).
Handle(f, m, n, call) ==
    /\ ~crashed
    /\ f \in DOMAIN facades
    /\ calls < MaxCalls
    /\ calls' = calls + 1
    /\ passed' = [passed EXCEPT ![f][m] = @ + n]
    /\ IF concurrent
       THEN /\ \E t \in Threads :
                  /\ thread[t].pc = "idle"
                  /\ thread' = [thread EXCEPT ![t] =
                                    [pc |-> "called", call |-> call, read |-> NewCounter]]
                  /\ overlapped' = (overlapped \/ \E u \in Threads \ {t} :
                                        /\ thread[u].pc # "idle"
                                        /\ thread[u].call.metric = call.metric)
            /\ render' = Disturbed(render)
            /\ UNCHANGED metrics
       ELSE /\ metrics' = [metrics EXCEPT ![call.metric] = Applied(@, call)]
            /\ UNCHANGED <<thread, render, overlapped>>
    /\ UNCHANGED <<registry, facades, mux, abortOnMisuse, crashed, concurrent,
                   prefixOf>>

\* InsertCall(): one more on insertCallCount.
InsertCall(f) ==
    Handle(f, "InsertCall", 1, Increment(facades[f].insertCallCount))

\* InsertRecordCount as it would be if it counted calls, not records.
InsertRecordCountPerCall(f, n) ==
    Handle(f, "InsertRecordCount", n, Increment(facades[f].insertRecordCount))

\* InsertRecordCount(n): n more on insertRecordCount.
InsertRecordCount(f, n) ==
    Handle(f, "InsertRecordCount", n, IncrementBy(facades[f].insertRecordCount, Float64(n)))

\* InsertCallDuration(d): one sample of d nanoseconds on insertCallDuration.
InsertCallDuration(f, d) ==
    Handle(f, "InsertCallDuration", d, Add(facades[f].insertCallDuration, Float64(Nanoseconds(d))))

\* InsertRecordDuration(d): one sample of d nanoseconds on insertRecordDuration.
InsertRecordDuration(f, d) ==
    Handle(f, "InsertRecordDuration", d, Add(facades[f].insertRecordDuration, Float64(Nanoseconds(d))))

\* InsertQuorumFailure(): one more on insertQuorumFailureCount.
InsertQuorumFailure(f) ==
    Handle(f, "InsertQuorumFailure", 1, Increment(facades[f].insertQuorumFailureCount))

\* SelectCall(): one more on selectCallCount.
SelectCall(f) ==
    Handle(f, "SelectCall", 1, Increment(facades[f].selectCallCount))

\* SelectKeys(n): n more on selectKeysCount.
SelectKeys(f, n) ==
    Handle(f, "SelectKeys", n, IncrementBy(facades[f].selectKeysCount, Float64(n)))

\* SelectSendTo as it would be with the field of the method above it.
SelectSendToOnKeysCount(f, n) ==
    Handle(f, "SelectSendTo", n, IncrementBy(facades[f].selectKeysCount, Float64(n)))

\* SelectSendTo(n): n more on selectSendToCount.
SelectSendTo(f, n) ==
    Handle(f, "SelectSendTo", n, IncrementBy(facades[f].selectSendToCount, Float64(n)))

\* SelectFirstResponseDuration as it would be if it observed microseconds.
SelectFirstResponseDurationMicros(f, d) ==
    Handle(f, "SelectFirstResponseDuration", d,
           Add(facades[f].selectFirstResponseDuration, Float64(Nanoseconds(d) \div 1000)))

\* SelectFirstResponseDuration(d): one sample of d nanoseconds on selectFirstResponseDuration.
SelectFirstResponseDuration(f, d) ==
    Handle(f, "SelectFirstResponseDuration", d, Add(facades[f].selectFirstResponseDuration, Float64(Nanoseconds(d))))

\* SelectPartialError(): one more on selectPartialErrorCount.
SelectPartialError(f) ==
    Handle(f, "SelectPartialError", 1, Increment(facades[f].selectPartialErrorCount))

\* SelectBlockingDuration(d): one sample of d nanoseconds on selectBlockingDuration.
SelectBlockingDuration(f, d) ==
    Handle(f, "SelectBlockingDuration", d, Add(facades[f].selectBlockingDuration, Float64(Nanoseconds(d))))

\* SelectOverheadDuration(d): one sample of d nanoseconds on selectOverheadDuration.
SelectOverheadDuration(f, d) ==
    Handle(f, "SelectOverheadDuration", d, Add(facades[f].selectOverheadDuration, Float64(Nanoseconds(d))))

\* SelectDuration(d): one sample of d nanoseconds on selectDuration.
SelectDuration(f, d) ==
    Handle(f, "SelectDuration", d, Add(facades[f].selectDuration, Float64(Nanoseconds(d))))

\* SelectSendAllPromotion(): one more on selectSendAllPromotionCount.
SelectSendAllPromotion(f) ==
    Handle(f, "SelectSendAllPromotion", 1, Increment(facades[f].selectSendAllPromotionCount))

\* SelectRetrieved(n): n more on selectRetrievedCount.
SelectRetrieved(f, n) ==
    Handle(f, "SelectRetrieved", n, IncrementBy(facades[f].selectRetrievedCount, Float64(n)))

\* SelectReturned(n): n more on selectReturnedCount.
SelectReturned(f, n) ==
    Handle(f, "SelectReturned", n, IncrementBy(facades[f].selectReturnedCount, Float64(n)))

\* SelectRepairNeeded(n): n more on selectRepairNeededCount.
SelectRepairNeeded(f, n) ==
    Handle(f, "SelectRepairNeeded", n, IncrementBy(facades[f].selectRepairNeededCount, Float64(n)))

\* DeleteCall(): one more on deleteCallCount.
DeleteCall(f) ==
    Handle(f, "DeleteCall", 1, Increment(facades[f].deleteCallCount))

\* DeleteRecordCount(n): n more on deleteRecordCount.
DeleteRecordCount(f, n) ==
    Handle(f, "DeleteRecordCount", n, IncrementBy(facades[f].deleteRecordCount, Float64(n)))

\* DeleteCallDuration(d): one sample of d nanoseconds on deleteCallDuration.
DeleteCallDuration(f, d) ==
    Handle(f, "DeleteCallDuration", d, Add(facades[f].deleteCallDuration, Float64(Nanoseconds(d))))

\* DeleteRecordDuration(d): one sample of d nanoseconds on deleteRecordDuration.
DeleteRecordDuration(f, d) ==
    Handle(f, "DeleteRecordDuration", d, Add(facades[f].deleteRecordDuration, Float64(Nanoseconds(d))))

\* DeleteQuorumFailure(): one more on deleteQuorumFailureCount.
DeleteQuorumFailure(f) ==
    Handle(f, "DeleteQuorumFailure", 1, Increment(facades[f].deleteQuorumFailureCount))

\* RepairCall(): one more on repairCallCount.
RepairCall(f) ==
    Handle(f, "RepairCall", 1, Increment(facades[f].repairCallCount))

\* RepairRequest(n): n more on repairRequestCount.
RepairRequest(f, n) ==
    Handle(f, "RepairRequest", n, IncrementBy(facades[f].repairRequestCount, Float64(n)))

\* RepairDiscarded(n): n more on repairDiscardedCount.
RepairDiscarded(f, n) ==
    Handle(f, "RepairDiscarded", n, IncrementBy(facades[f].repairDiscardedCount, Float64(n)))

\* RepairWriteSuccess(n): n more on repairWriteSuccessCount.
RepairWriteSuccess(f, n) ==
    Handle(f, "RepairWriteSuccess", n, IncrementBy(facades[f].repairWriteSuccessCount, Float64(n)))

\* RepairWriteFailure(n): n more on repairWriteFailureCount.
RepairWriteFailure(f, n) ==
    Handle(f, "RepairWriteFailure", n, IncrementBy(facades[f].repairWriteFailureCount, Float64(n)))

\* WalkKeys(n): n more on walkKeysCount.
WalkKeys(f, n) ==
    Handle(f, "WalkKeys", n, IncrementBy(facades[f].walkKeysCount, Float64(n)))

\* Inside the library call: take the metric's lock and read the metric.
Lock(t) ==
    /\ thread[t].pc = "called"
    /\ MutexFree(thread[t].call.metric)
    /\ thread' = [thread EXCEPT ![t].pc = "locked",
                                ![t].read = metrics[thread[t].call.metric]]
    /\ render' = Disturbed(render)
    /\ UNCHANGED <<metrics, registry, facades, mux, abortOnMisuse, crashed,
                   concurrent, calls, prefixOf, passed, overlapped>>

\* Inside the library call: store the updated metric, release the lock, return.
Unlock(t) ==
    LET h == thread[t].call.metric
        obj == Applied(thread[t].read, thread[t].call)
    IN  /\ thread[t].pc = "locked"
        /\ metrics' = [metrics EXCEPT ![h] = obj]
        /\ thread' = [thread EXCEPT ![t] = IdleThread]
        /\ render' = Observed(render, h, obj)
        /\ UNCHANGED <<registry, facades, mux, abortOnMisuse, crashed,
                       concurrent, calls, prefixOf, passed, overlapped>>

\* A GET on a mounted pattern: the handler starts rendering the registry.
RenderStart(pattern) ==
    /\ ~crashed
    /\ pattern \in DOMAIN mux
    /\ Served(mux[pattern], registry) = registry
    /\ render.state \in {"idle", "done"}
    /\ render' = [state |-> "running", idx |-> 1, out |-> <<>>,
                  start |-> [k \in 1..Len(registry) |-> metrics[registry[k].metric]],
                  held |-> [k \in 1..Len(registry) |-> {metrics[registry[k].metric]}],
                  quiet |-> \A t \in Threads : thread[t].pc = "idle"]
    /\ UNCHANGED <<metrics, registry, facades, mux, abortOnMisuse, crashed,
                   concurrent, thread, calls, prefixOf, passed,
                   overlapped>>

\* The render reads the next registered metric under that metric's lock.
RenderStep ==
    /\ render.state = "running"
    /\ render.idx <= Len(registry)
    /\ MutexFree(registry[render.idx].metric)
    /\ render' = [render EXCEPT !.idx = @ + 1,
                                !.out = Append(@, metrics[registry[render.idx].metric])]
    /\ UNCHANGED <<metrics, registry, facades, mux, abortOnMisuse, crashed,
                   concurrent, thread, calls, prefixOf, passed,
                   overlapped>>

\* The render has read every registered metric: the response is written.
RenderEnd ==
    /\ render.state = "running"
    /\ render.idx > Len(registry)
    /\ render' = [render EXCEPT !.state = "done"]
    /\ UNCHANGED <<metrics, registry, facades, mux, abortOnMisuse, crashed,
                   concurrent, thread, calls, prefixOf, passed,
                   overlapped>>

\* --------------------------------------------------------- specifications

\* One caller: construction, Install and the 28 events, one call at a time.
Next ==
    \/ \E prefix \in Prefixes : New(prefix)
    \/ \E f \in DOMAIN facades, pattern \in Patterns : Install(f, pattern)
    \/ \E f \in DOMAIN facades : InsertCall(f)
    \/ \E f \in DOMAIN facades, n \in Counts : InsertRecordCount(f, n)
    \/ \E f \in DOMAIN facades, d \in Durations : InsertCallDuration(f, d)
    \/ \E f \in DOMAIN facades, d \in Durations : InsertRecordDuration(f, d)
    \/ \E f \in DOMAIN facades : InsertQuorumFailure(f)
    \/ \E f \in DOMAIN facades : SelectCall(f)
    \/ \E f \in DOMAIN facades, n \in Counts : SelectKeys(f, n)
    \/ \E f \in DOMAIN facades, n \in Counts : SelectSendTo(f, n)
    \/ \E f \in DOMAIN facades, d \in Durations : SelectFirstResponseDuration(f, d)
    \/ \E f \in DOMAIN facades : SelectPartialError(f)
    \/ \E f \in DOMAIN facades, d \in Durations : SelectBlockingDuration(f, d)
    \/ \E f \in DOMAIN facades, d \in Durations : SelectOverheadDuration(f, d)
    \/ \E f \in DOMAIN facades, d \in Durations : SelectDuration(f, d)
    \/ \E f \in DOMAIN facades : SelectSendAllPromotion(f)
    \/ \E f \in DOMAIN facades, n \in Counts : SelectRetrieved(f, n)
    \/ \E f \in DOMAIN facades, n \in Counts : SelectReturned(f, n)
    \/ \E f \in DOMAIN facades, n \in Counts : SelectRepairNeeded(f, n)
    \/ \E f \in DOMAIN facades : DeleteCall(f)
    \/ \E f \in DOMAIN facades, n \in Counts : DeleteRecordCount(f, n)
    \/ \E f \in DOMAIN facades, d \in Durations : DeleteCallDuration(f, d)
    \/ \E f \in DOMAIN facades, d \in Durations : DeleteRecordDuration(f, d)
    \/ \E f \in DOMAIN facades : DeleteQuorumFailure(f)
    \/ \E f \in DOMAIN facades : RepairCall(f)
    \/ \E f \in DOMAIN facades, n \in Counts : RepairRequest(f, n)
    \/ \E f \in DOMAIN facades, n \in Counts : RepairDiscarded(f, n)
    \/ \E f \in DOMAIN facades, n \in Counts : RepairWriteSuccess(f, n)
    \/ \E f \in DOMAIN facades, n \in Counts : RepairWriteFailure(f, n)
    \/ \E f \in DOMAIN facades, n \in Counts : WalkKeys(f, n)

Spec == Init /\ [][Next]_vars

\* A process serving traffic: the facade New("test_") returned is installed
\* at "/metrics" and shared by the threads of the store.
InitConc ==
    /\ abortOnMisuse = FALSE
    /\ metrics = NewMetrics
    /\ facades = <<Allocated(0)>>
    /\ registry = RegisterAll(<<>>, "test_", Allocated(0), 1).registry
    /\ mux = ("/metrics" :> DefaultHandler)
    /\ crashed = FALSE
    /\ concurrent = TRUE
    /\ thread = [t \in Threads |-> IdleThread]
    /\ render = IdleRender
    /\ calls = 0
    /\ prefixOf = <<"test_">>
    /\ passed = <<[m \in Methods |-> 0]>>
    /\ overlapped = FALSE

\* Concurrent callers of three of the events, and a scrape alongside them.
NextConc ==
    \/ \E f \in DOMAIN facades : InsertCall(f)
    \/ \E f \in DOMAIN facades, n \in Counts : RepairRequest(f, n)
    \/ \E f \in DOMAIN facades, d \in Durations : SelectFirstResponseDuration(f, d)
    \/ \E t \in Threads : Lock(t)
    \/ \E t \in Threads : Unlock(t)
    \/ \E pattern \in DOMAIN mux : RenderStart(pattern)
    \/ RenderStep
    \/ RenderEnd

SpecConc == InitConc /\ [][NextConc]_vars

\* ------------------------------------------------- the event catalogue

\* Section 6 of the specification: event method -> metric name suffix, type.
Catalogue ==
    [ InsertCall                  |-> [suffix |-> "insert_call_count",                          type |-> "counter"],
      InsertRecordCount           |-> [suffix |-> "insert_record_count",                        type |-> "counter"],
      InsertCallDuration          |-> [suffix |-> "insert_call_duration_nanoseconds",           type |-> "histogram"],
      InsertRecordDuration        |-> [suffix |-> "insert_record_duration_nanoseconds",         type |-> "histogram"],
      InsertQuorumFailure         |-> [suffix |-> "insert_quorum_failure_count",                type |-> "counter"],
      SelectCall                  |-> [suffix |-> "select_call_count",                          type |-> "counter"],
      SelectKeys                  |-> [suffix |-> "select_keys_count",                          type |-> "counter"],
      SelectSendTo                |-> [suffix |-> "select_send_to_count",                       type |-> "counter"],
      SelectFirstResponseDuration |-> [suffix |-> "select_first_response_duration_nanoseconds", type |-> "histogram"],
      SelectPartialError          |-> [suffix |-> "select_partial_error_count",                 type |-> "counter"],
      SelectBlockingDuration      |-> [suffix |-> "select_blocking_duration_nanoseconds",       type |-> "histogram"],
      SelectOverheadDuration      |-> [suffix |-> "select_overhead_duration_nanoseconds",       type |-> "histogram"],
      SelectDuration              |-> [suffix |-> "select_duration_nanoseconds",                type |-> "histogram"],
      SelectSendAllPromotion      |-> [suffix |-> "select_send_all_promotion_count",            type |-> "counter"],
      SelectRetrieved             |-> [suffix |-> "select_retrieved_count",                     type |-> "counter"],
      SelectReturned              |-> [suffix |-> "select_returned_count",                      type |-> "counter"],
      SelectRepairNeeded          |-> [suffix |-> "select_repair_needed_count",                 type |-> "counter"],
      DeleteCall                  |-> [suffix |-> "delete_call_count",                          type |-> "counter"],
      DeleteRecordCount           |-> [suffix |-> "delete_record_count",                        type |-> "counter"],
      DeleteCallDuration          |-> [suffix |-> "delete_call_duration_nanoseconds",           type |-> "histogram"],
      DeleteRecordDuration        |-> [suffix |-> "delete_record_duration_nanoseconds",         type |-> "histogram"],
      DeleteQuorumFailure         |-> [suffix |-> "delete_quorum_failure_count",                type |-> "counter"],
      RepairCall                  |-> [suffix |-> "repair_call_count",                          type |-> "counter"],
      RepairRequest               |-> [suffix |-> "repair_request_count",                       type |-> "counter"],
      RepairDiscarded             |-> [suffix |-> "repair_discarded_count",                     type |-> "counter"],
      RepairWriteSuccess          |-> [suffix |-> "repair_write_success_count",                 type |-> "counter"],
      RepairWriteFailure          |-> [suffix |-> "repair_write_failure_count",                 type |-> "counter"],
      WalkKeys                    |-> [suffix |-> "walk_keys_count",                            type |-> "counter"] ]

CounterEvents == {m \in Methods : Catalogue[m].type = "counter"}

DurationEvents == {m \in Methods : Catalogue[m].type = "histogram"}

Suffixes == {Registrations[k].suffix : k \in 1..Len(Registrations)}

\* The field New passes to Register under a suffix.
FieldRegisteredAs(suffix) ==
    Registrations[CHOOSE k \in 1..Len(Registrations) :
                      Registrations[k].suffix = suffix].field

\* The metric of facade f that the catalogue gives event m: the one New
\* passes to Register under prefix + the event's suffix.
Bound(f, m) == facades[f][FieldRegisteredAs(Catalogue[m].suffix)]

\* The metric registered under a name.
Lookup(reg, name) ==
    reg[CHOOSE k \in 1..Len(reg) : reg[k].name = name].metric

\* No facade constructed before f was given f's prefix.
FirstOfPrefix(f) == \A e \in 1..(f - 1) : prefixOf[e] # prefixOf[f]

\* Every metric of facade f is in the registry under prefix + suffix.
AllRegistered(reg, fs, pf, f) ==
    \A k \in 1..Len(Registrations) :
        \E j \in 1..Len(reg) :
            /\ reg[j].name = pf[f] \o Registrations[k].suffix
            /\ reg[j].metric = fs[f][Registrations[k].field]

MetricsOf(f) == {facades[f][fld] : fld \in FieldSet}

AllIdle == \A t \in Threads : thread[t].pc = "idle"

\* --------------------------------------------------------------- claims

\* C1: after any sequence of calls, the counter bound to each counter event
\* of each facade holds the sum of the arguments passed to that event (1 per
\* call of an event without argument), whatever the order of the calls.
C1_CounterIsSumOfArguments ==
    \A f \in DOMAIN facades :
        \A m \in CounterEvents :
            /\ metrics[Bound(f, m)].kind = "counter"
            /\ metrics[Bound(f, m)].value = passed[f][m]

\* C1, reached: under prefix "test_", InsertRecordCount(5) twice leaves
\* test_insert_record_count at 10.
C1_Witness ==
    \E f \in DOMAIN facades :
        /\ prefixOf[f] = "test_"
        /\ FirstOfPrefix(f)
        /\ passed[f]["InsertRecordCount"] = 10
        /\ metrics[Lookup(registry, "test_insert_record_count")].value = 10

\* C2: once every concurrent call has returned, each counter holds the sum of
\* the deltas of the calls made on it: no update is lost, in any interleaving.
C2_NoLostUpdate ==
    AllIdle =>
        \A f \in DOMAIN facades :
            \A m \in CounterEvents :
                metrics[Bound(f, m)].value = passed[f][m]

\* C2, reached: two calls of RepairRequest(1) that were inside the call at the
\* same time have both returned, and repair_request_count is 2.
C2_Witness ==
    /\ AllIdle
    /\ overlapped
    /\ calls = 2
    /\ passed[1]["RepairRequest"] = 2
    /\ metrics[Lookup(registry, "test_repair_request_count")].value = 2

\* C3: no step lowers a counter, and no counter is ever negative, whatever
\* integers the events are called with.
C3_CountersNeverDecrease ==
    [][\A h \in DOMAIN metrics :
          metrics[h].kind = "counter" =>
              /\ metrics'[h].value >= metrics[h].value
              /\ metrics'[h].value >= 0]_vars

\* C4: no two facades returned by New were constructed with the same prefix:
\* the second New of a prefix does not return a facade.
C4_SecondNewOfPrefixDoesNotReturn ==
    \A f, g \in DOMAIN facades : f # g => prefixOf[f] # prefixOf[g]

\* The bucket b of a histogram contains the duration d.
Contains(b, d) ==
    /\ (b = 1 \/ d > BucketBounds[b - 1])
    /\ (b = NumBuckets \/ d <= BucketBounds[b])

\* The histogram h took exactly one sample of d nanoseconds in this step.
Sampled(h, d) ==
    /\ metrics[h].kind = "histogram"
    /\ metrics'[h].count = metrics[h].count + 1
    /\ metrics'[h].sum = metrics[h].sum + d
    /\ \E b \in 1..NumBuckets :
           /\ Contains(b, d)
           /\ metrics'[h].buckets[b] = metrics[h].buckets[b] + 1
           /\ \A c \in 1..NumBuckets \ {b} :
                  metrics'[h].buckets[c] = metrics[h].buckets[c]

\* C5: each call of a duration event with duration d adds 1 to the count of
\* the bound histogram, d to its sum, and 1 to the one bucket containing d.
C5_DurationIsOneSample ==
    [][\A f \in DOMAIN facades :
          \A m \in DurationEvents :
              passed'[f][m] # passed[f][m] =>
                  Sampled(Bound(f, m), passed'[f][m] - passed[f][m])]_vars

\* C5, reached: one SelectFirstResponseDuration(1500000) on a fresh facade:
\* count 1, sum 1500000, and 1 in the bucket whose bound first exceeds it.
C5_Witness ==
    \E f \in DOMAIN facades :
        LET h == facades[f].selectFirstResponseDuration
        IN  /\ passed[f]["SelectFirstResponseDuration"] = 1500000
            /\ metrics[h].count = 1
            /\ metrics[h].sum = 1500000
            /\ metrics[h].buckets = <<0, 0, 1, 0>>

\* Prefixes of which one is the start of another, or of a registered suffix.
TrickyPrefixes ==
    {"", "test_", "insert_", "select_", "delete_", "repair_", "walk_",
     "select_repair_", "a", "_"}

NamesUnder(prefix) == {MetricName(prefix, s) : s \in Suffixes}

\* C6: a New with a prefix no facade was constructed with returns a facade
\* whose 28 names are all registered, to its own metrics, and distinct from
\* the 28 names under any other prefix; and an event call on one facade
\* leaves every metric of every other facade unchanged.
C6_DistinctPrefixesCoexist ==
    [][/\ \A p \in Prefixes :
              (/\ \A e \in DOMAIN facades : prefixOf[e] # p
               /\ (facades' # facades \/ crashed')
               /\ New(p)) =>
                  /\ ~crashed'
                  /\ Len(facades') = Len(facades) + 1
                  /\ Len(registry') = Len(registry) + NumFields
                  /\ AllRegistered(registry', facades', prefixOf', Len(facades'))
                  /\ Cardinality(NamesUnder(p)) = NumFields
                  /\ \A q \in (TrickyPrefixes \cup Prefixes) \ {p} :
                         NamesUnder(p) \cap NamesUnder(q) = {}
       /\ \A f, g \in DOMAIN facades :
              (f # g /\ passed'[f] # passed[f]) =>
                  \A h \in MetricsOf(g) : metrics'[h] = metrics[h]]_vars

\* C6, reached: two facades with distinct prefixes, 56 names registered, an
\* event counted on the first and every metric of the second untouched.
C6_Witness ==
    /\ Len(facades) = 2
    /\ prefixOf[1] # prefixOf[2]
    /\ Len(registry) = 2 * NumFields
    /\ Cardinality(RegisteredNames(registry)) = 2 * NumFields
    /\ metrics[facades[1].walkKeysCount].value = 5
    /\ \A h \in MetricsOf(2) :
           metrics[h] \in {NewCounter, NewDefaultHistogram}

\* The value a render shows for a metric: a counter's value, a histogram's
\* sample count.
Shown(obj) == IF obj.kind = "counter" THEN obj.value ELSE obj.count

\* C7: what a render has read of a metric is a state the metric was in
\* between the start of the render and now, never below what it showed at
\* the start; and with no call in flight it is the metric's current state.
C7_RenderIsConsistent ==
    render.state # "idle" =>
        \A k \in 1..Len(render.out) :
            /\ render.out[k] \in render.held[k]
            /\ Shown(render.out[k]) >= Shown(render.start[k])
            /\ render.quiet => render.out[k] = metrics[registry[k].metric]

\* C7 without the lower bound: a render shows states the metric was in
\* during the render, and the current state when no call is in flight.
C7_RenderShowsHeldValues ==
    render.state # "idle" =>
        \A k \in 1..Len(render.out) :
            /\ render.out[k] \in render.held[k]
            /\ render.quiet => render.out[k] = metrics[registry[k].metric]

C9_ConstructedOnceThenFixed ==
    [][/\ \A f \in DOMAIN facades' :
              AllRegistered(registry', facades', prefixOf', f)
       /\ \A f \in DOMAIN facades :
              f \in DOMAIN facades' /\ facades'[f] = facades[f]
       /\ \A k \in 1..Len(registry) :
              k <= Len(registry') /\ registry'[k] = registry[k]]_vars

\* C9 for the steps that are not a New: events and Install calls leave the
\* registry and every facade as they are.
C9_OnlyNewRegisters ==
    [][(Len(facades') = Len(facades) /\ ~crashed') =>
           (registry' = registry /\ facades' = facades)]_vars

\* The metrics a GET on a mounted pattern renders.
ExposedMetrics(mx, reg, pattern) ==
    {Served(mx[pattern], reg)[k].metric : k \in 1..Len(Served(mx[pattern], reg))}

\* C10: every mounted endpoint, whichever facade installed it, exposes every
\* metric of every facade New has returned; a New that returns a further
\* facade adds to what the endpoints already mounted expose.
C10_EndpointExposesEveryFacade ==
    [][/\ \A pattern \in DOMAIN mux' :
              \A f \in DOMAIN facades' :
                  {facades'[f][fld] : fld \in FieldSet}
                      \subseteq ExposedMetrics(mux', registry', pattern)
       /\ \A pattern \in DOMAIN mux :
              Len(facades') > Len(facades) =>
                  /\ ExposedMetrics(mux, registry, pattern)
                         # ExposedMetrics(mux', registry', pattern)
                  /\ ExposedMetrics(mux, registry, pattern)
                         \subseteq ExposedMetrics(mux', registry', pattern)]_vars

\* C10 for the facades that are the first of their prefix.
C10_EndpointExposesFirstOfPrefix ==
    \A pattern \in DOMAIN mux :
        \A f \in DOMAIN facades :
            FirstOfPrefix(f) =>
                MetricsOf(f) \subseteq ExposedMetrics(mux, registry, pattern)

====
